---------------------------- MODULE Spec2Model ----------------------------
(***************************************************************************)
(* Geiger counter with GPS: the firmware of the embedded controller, in    *)
(* its two build profiles                                                  *)
(*   A: src/unnamed/part_000 (GPS 4800 baud, 0.0027 uSv/h per CPM)         *)
(*   B: src/arduino/geiger_V26_LGT8F328P.ino (9600 baud, 0.00347)          *)
(* setup(), loop() and the pulse interrupt impulse() are modelled as a     *)
(* state machine.  `unsigned long` is a 32-bit word and `float`/`double`   *)
(* the 32-bit IEEE-754 binary format of the AVR tool chain; both are       *)
(* modelled bit-exactly, texts are sequences of one-character strings.     *)
(***************************************************************************)
EXTENDS Integers, Sequences, FiniteSets, TLC

(***************************************************************************)
(* unsigned long: a 32-bit word kept as two 16-bit halves [hi, lo], so     *)
(* that every intermediate value stays within the checker's integers.      *)
(***************************************************************************)
Half == 65536

U32(n) == [hi |-> n \div Half, lo |-> n % Half]

U32Set == [hi : 0..(Half - 1), lo : 0..(Half - 1)]

\* a + b modulo 2^32
Add32(a, b) ==
  LET lo == a.lo + b.lo
      hi == a.hi + b.hi + (lo \div Half)
  IN  [hi |-> hi % Half, lo |-> lo % Half]

\* the carry out of a + b: 1 when the 32-bit sum wrapped, else 0
Carry32(a, b) == (a.hi + b.hi + ((a.lo + b.lo) \div Half)) \div Half

\* a - b modulo 2^32 (the C expression a - b on unsigned long)
Sub32(a, b) ==
  LET borrow == IF a.lo < b.lo THEN 1 ELSE 0
  IN  [hi |-> (a.hi - b.hi - borrow + Half) % Half,
       lo |-> (a.lo - b.lo + Half) % Half]

\* a > n for a small constant n (0 <= n < 65536)
Gt32(a, n) == a.hi > 0 \/ a.lo > n

\* a < b on unsigned long
Lt32(a, b) == a.hi < b.hi \/ (a.hi = b.hi /\ a.lo < b.lo)

(***************************************************************************)
(* float: IEEE-754 binary32, [s, m, e] with value (-1)^s * m * 2^e and     *)
(* m = 0 or 2^23 <= m < 2^24.  Round to nearest, ties to even.  The values *)
(* of the program stay far from the subnormal and overflow ranges, which   *)
(* are not modelled.                                                       *)
(***************************************************************************)
RECURSIVE BitLen(_)
BitLen(n) == IF n = 0 THEN 0 ELSE 1 + BitLen(n \div 2)

FZero == [s |-> 0, m |-> 0, e |-> 0]

\* the float nearest to (-1)^s * (M + f) * 2^e, where 0 < f < 1 when sticky
\* and f = 0 otherwise; 0 <= M < 2^31
RoundPack(s, M, e, sticky) ==
  LET n == BitLen(M)
  IN  IF M = 0 THEN FZero
      ELSE IF n <= 24 THEN [s |-> s, m |-> M * 2^(24 - n), e |-> e - (24 - n)]
      ELSE LET k    == n - 24
               q    == M \div 2^k
               r    == M % 2^k
               half == 2^(k - 1)
               up   == r > half \/ (r = half /\ (sticky \/ q % 2 = 1))
               q2   == IF up THEN q + 1 ELSE q
           IN  IF q2 = 16777216
                 THEN [s |-> s, m |-> 8388608, e |-> e + k + 1]
                 ELSE [s |-> s, m |-> q2, e |-> e + k]

\* conversion of a non-negative integer (< 2^31) to float
FromInt(n) == RoundPack(0, n, 0, FALSE)

\* n * 2^e as a float, for literals (n < 2^24: exact)
FLit(s, n, e) == RoundPack(s, n, e, FALSE)

FNeg(a) == IF a.m = 0 THEN a ELSE [a EXCEPT !.s = 1 - a.s]

\* a + b
FAdd(a, b) ==
  IF a.m = 0 THEN b
  ELSE IF b.m = 0 THEN a
  ELSE
    LET swap == b.e > a.e \/ (b.e = a.e /\ b.m > a.m)
        x    == IF swap THEN b ELSE a
        y    == IF swap THEN a ELSE b
        d    == x.e - y.e
        X    == x.m * 64
        sh   == d - 6
        Y    == IF d <= 6 THEN y.m * 2^(6 - d)
                ELSE IF sh >= 25 THEN 0 ELSE y.m \div 2^sh
        st   == IF d <= 6 THEN FALSE
                ELSE IF sh >= 25 THEN TRUE ELSE y.m % 2^sh # 0
    IN  IF x.s = y.s
          THEN RoundPack(x.s, X + Y, x.e - 6, st)
          ELSE IF st THEN RoundPack(x.s, X - Y - 1, x.e - 6, TRUE)
               ELSE RoundPack(x.s, X - Y, x.e - 6, FALSE)

\* a - b
FSub(a, b) == FAdd(a, FNeg(b))

\* a * b
FMul(a, b) ==
  IF a.m = 0 \/ b.m = 0 THEN FZero
  ELSE
    LET a1   == a.m \div 4096
        a0   == a.m % 4096
        b1   == b.m \div 4096
        b0   == b.m % 4096
        mid  == a1 * b0 + a0 * b1
        lo24 == a0 * b0 + (mid % 4096) * 4096
        low  == lo24 % 16777216
        high == a1 * b1 + (mid \div 4096) + (lo24 \div 16777216)
    IN  RoundPack((a.s + b.s) % 2, high * 32 + (low \div 524288),
                  a.e + b.e + 19, low % 524288 # 0)

\* the quotient bits of r / d, one per step: <<quotient, remainder>>
RECURSIVE DivBits(_, _, _, _)
DivBits(q, r, d, n) ==
  IF n = 0 THEN <<q, r>>
  ELSE IF 2 * r >= d THEN DivBits(2 * q + 1, 2 * r - d, d, n - 1)
       ELSE DivBits(2 * q, 2 * r, d, n - 1)

\* a / b (b # 0)
FDiv(a, b) ==
  IF a.m = 0 THEN FZero
  ELSE
    LET q0 == a.m \div b.m
        qr == DivBits(q0, a.m % b.m, b.m, 26)
    IN  RoundPack((a.s + b.s) % 2, qr[1], a.e - b.e - 26, qr[2] # 0)


(***************************************************************************)
(* Texts (the Arduino String and what Print writes) are sequences of       *)
(* one-character strings.                                                  *)
(***************************************************************************)
Digits == <<"0", "1", "2", "3", "4", "5", "6", "7", "8", "9">>

RECURSIVE NatText(_)
NatText(n) ==
  IF n < 10 THEN <<Digits[n + 1]>>
  ELSE NatText(n \div 10) \o <<Digits[(n % 10) + 1]>>

\* String(n) for an integer n
IntText(n) == IF n < 0 THEN <<"-">> \o NatText(-n) ELSE NatText(n)

\* the decimal text of n, zero-padded on the left to w digits
RECURSIVE NatTextPad(_, _)
NatTextPad(n, w) ==
  IF w = 0 THEN <<>>
  ELSE NatTextPad(n \div 10, w - 1) \o <<Digits[(n % 10) + 1]>>

\* (int)x and (unsigned long)x for a float x: truncation toward zero
FTrunc(a) ==
  LET mag == IF a.m = 0 THEN 0
             ELSE IF a.e >= 0 THEN a.m * 2^a.e
             ELSE IF a.e <= -24 THEN 0
             ELSE a.m \div 2^(-a.e)
  IN  IF a.s = 1 THEN -mag ELSE mag

\* dec decimal digits of r / 2^k (0 <= r < 2^k, k <= 27), one digit per
\* step: <<the digits as a number, the remainder>>
RECURSIVE FracDigits(_, _, _, _)
FracDigits(acc, r, k, dec) ==
  IF dec = 0 THEN <<acc, r>>
  ELSE FracDigits(acc * 10 + ((r * 10) \div 2^k), (r * 10) % 2^k, k, dec - 1)

\* |a| * 10^dec rounded to the nearest integer, halves away from zero
ScaledRound(a, dec) ==
  IF a.m = 0 THEN 0
  ELSE IF a.e >= 0 THEN a.m * 2^a.e * 10^dec
  ELSE LET k == -a.e
       IN  IF k <= 27
             THEN LET ip == a.m \div 2^k
                      fd == FracDigits(0, a.m % 2^k, k, dec)
                      up == IF 2 * fd[2] >= 2^k THEN 1 ELSE 0
                  IN  ip * 10^dec + fd[1] + up
           ELSE \* |a| < 1/16; exact for dec <= 2, where a.m * 10^dec < 2^31
             LET p == a.m * 10^dec
             IN  IF k <= 30
                   THEN (p \div 2^k) + (IF 2 * (p % 2^k) >= 2^k THEN 1 ELSE 0)
                 ELSE IF k = 31 /\ p >= 2^30 THEN 1 ELSE 0

\* String(x, dec) for a float x: dtostrf(x, dec + 2, dec, buf).  The sign
\* is that of x, also when the digits round to zero ("-0.00").
FloatText(a, dec) ==
  LET n == ScaledRound(a, dec)
  IN  (IF a.s = 1 /\ a.m # 0 THEN <<"-">> ELSE <<>>)
      \o NatText(n \div 10^dec) \o <<".">> \o NatTextPad(n % 10^dec, dec)


\* Print::print(double, digits) of the Arduino core, which the display
\* inherits: add 0.5 / 10^digits, print the integer part, then one digit at
\* a time, all in float arithmetic
RECURSIVE PrintRounding(_, _)
PrintRounding(r, digits) ==
  IF digits = 0 THEN r ELSE PrintRounding(FDiv(r, FromInt(10)), digits - 1)

RECURSIVE PrintDigits(_, _)
PrintDigits(rem, digits) ==
  IF digits = 0 THEN <<>>
  ELSE LET r10 == FMul(rem, FromInt(10))
           d   == FTrunc(r10)
       IN  NatText(d) \o PrintDigits(FSub(r10, FromInt(d)), digits - 1)

PrintFloat(a, digits) ==
  LET neg  == a.s = 1 /\ a.m # 0
      num  == FAdd([a EXCEPT !.s = 0], PrintRounding(FLit(0, 1, -1), digits))
      ip   == FTrunc(num)
  IN  (IF neg THEN <<"-">> ELSE <<>>) \o NatText(ip) \o <<".">>
      \o PrintDigits(FSub(num, FromInt(ip)), digits)

(***************************************************************************)
(* Program constants                                                       *)
(***************************************************************************)
LOG_PERIOD == 15000
NUM_SAMPLES == 16
DEBOUNCE_US == 150

\* const float uSv_per_CPM: the float nearest to 0.0027 (A), 0.00347 (B)
uSv_per_CPM(p) ==
  IF p = "A" THEN [s |-> 0, m |-> 11596412, e |-> -32]
             ELSE [s |-> 0, m |-> 14903537, e |-> -32]

\* a multiplier taken for a period of 16000 ms: the integer 3
CpmOf16s(c) == c * (60000 \div (LOG_PERIOD + 1000))

\* counts * (60000 / LOG_PERIOD): the quotient is the integer 4
CpmOf(c) == c * (60000 \div LOG_PERIOD)

\* the round(x) macro of Arduino.h on a non-negative integer x:
\* (long)((x) + 0.5)
Round(x) == FTrunc(FAdd(FromInt(x), FLit(0, 1, -1)))

\* gps.hdop.value() * 3 / 100: the operands are integers, so the division
\* is the integer division of C
HdopTimes3Div100(h) == (h * 3) \div 100

\* the estimated accuracy: round(h * 3 / 100) in A, (int)(h * 3 / 100) in B
Accuracy(p, h) ==
  IF p = "A" THEN Round(HdopTimes3Div100(h)) ELSE HdopTimes3Div100(h)

(***************************************************************************)
(* The GPS fix as TinyGPS++ keeps it: every object has its own validity    *)
(* flag, false until a sentence that carries it has been decoded.          *)
(***************************************************************************)
NoFix ==
  [date       |-> [valid |-> FALSE, day |-> 0, month |-> 0, year |-> 2000],
   time       |-> [valid |-> FALSE, hour |-> 0, minute |-> 0, second |-> 0],
   location   |-> [valid |-> FALSE, lat |-> FZero, lng |-> FZero],
   altitude   |-> [valid |-> FALSE, meters |-> FZero],
   satellites |-> [valid |-> FALSE, value |-> 0],
   hdop       |-> [valid |-> FALSE, value |-> 0]]

\* gps.encode(c): a byte that ends a sentence commits the objects the
\* sentence carries (c.set maps their names to the new values) and marks
\* them valid; any other byte (c.set empty) changes nothing the program
\* reads
Encode(fix, c) ==
  [k \in DOMAIN fix |->
     IF k \in DOMAIN c.set THEN c.set[k] @@ [valid |-> TRUE] ELSE fix[k]]

\* a number printed without the "0" the code puts before a value below 10
Txt2NoPad(n) == IntText(n)

\* (n < 10 ? "0" : "") + String(n)
Txt2(n) == (IF n < 10 THEN <<"0">> ELSE <<>>) \o IntText(n)

Pipe == <<"|">>

\* the texts of the GPS fields of the record, profile A (part_000, 86-114)
FieldsA(fix) ==
  [data |->
     IF fix.date.valid
       THEN IntText(fix.date.day) \o <<".">> \o IntText(fix.date.month)
            \o <<".">> \o IntText(fix.date.year) \o <<"r", ".">>
       ELSE <<"0", "0", ".", "0", "0", ".", "0", "0", "0", "0", "r", ".">>,
   czas |->
     IF fix.time.valid
       THEN IntText(fix.time.hour) \o <<":">> \o Txt2(fix.time.minute)
            \o <<":">> \o Txt2(fix.time.second)
       ELSE <<"0", "0", ":", "0", "0", ":", "0", "0">>,
   wspolrzedne |->
     IF fix.location.valid
       THEN FloatText(fix.location.lat, 6) \o Pipe
            \o FloatText(fix.location.lng, 6)
       ELSE <<"0", ".", "0", "0", "0", "0", "0", "0", "|",
              "0", ".", "0", "0", "0", "0", "0", "0">>,
   wysokosc |->
     IF fix.altitude.valid THEN FloatText(fix.altitude.meters, 2)
                           ELSE <<"0", ".", "0", "0">>,
   satelity |->
     IF fix.satellites.valid THEN IntText(fix.satellites.value) ELSE <<"0">>,
   hdop |->
     IF fix.hdop.valid
       THEN FloatText(FDiv(FromInt(fix.hdop.value), FromInt(100)), 2)
       ELSE <<"0", ".", "0", "0">>,
   dokladnosc |->
     IF fix.hdop.valid THEN IntText(Accuracy("A", fix.hdop.value))
                       ELSE <<"0">>]

\* the same for profile B (geiger_V26_LGT8F328P.ino, 81-121)
FieldsB(fix) ==
  [data |->
     IF fix.date.valid
       THEN Txt2(fix.date.day) \o <<".">> \o Txt2(fix.date.month) \o <<".">>
            \o SubSeq(IntText(fix.date.year), 3, Len(IntText(fix.date.year)))
       ELSE <<"0", "0", ".", "0", "0", ".", "0", "0">>,
   czas |->
     IF fix.time.valid
       THEN Txt2(fix.time.hour) \o <<":">> \o Txt2(fix.time.minute)
            \o <<":">> \o Txt2(fix.time.second)
       ELSE <<"0", "0", ":", "0", "0", ":", "0", "0">>,
   latitude |->
     IF fix.location.valid THEN FloatText(fix.location.lat, 6)
       ELSE <<"0", "0", ".", "0", "0", "0", "0", "0", "0">>,
   longitude |->
     IF fix.location.valid THEN FloatText(fix.location.lng, 6)
       ELSE <<"0", "0", ".", "0", "0", "0", "0", "0", "0">>,
   wysokosc |->
     IF fix.altitude.valid THEN IntText(FTrunc(fix.altitude.meters))
                           ELSE <<"0">>,
   satelity |->
     IF fix.satellites.valid THEN IntText(fix.satellites.value) ELSE <<"0">>,
   hdop |->
     IF fix.hdop.valid
       THEN FloatText(FDiv(FromInt(fix.hdop.value), FromInt(100)), 1)
       ELSE <<"0">>,
   dokladnosc |->
     IF fix.hdop.valid THEN IntText(Accuracy("B", fix.hdop.value))
                       ELSE <<"0">>]

\* the line written to Serial: the fields joined by '|'
RecordLine(p, fix, dose, avg) ==
  IF p = "A"
    THEN LET f == FieldsA(fix)
         IN  f.data \o Pipe \o f.czas \o Pipe \o f.wspolrzedne \o Pipe
             \o f.wysokosc \o Pipe \o f.satelity \o Pipe \o f.hdop \o Pipe
             \o f.dokladnosc \o Pipe \o FloatText(dose, 2) \o Pipe
             \o FloatText(avg, 2)
    ELSE LET f == FieldsB(fix)
         IN  f.data \o Pipe \o f.czas \o Pipe \o f.latitude \o Pipe
             \o f.longitude \o Pipe \o f.wysokosc \o Pipe \o f.satelity
             \o Pipe \o f.hdop \o Pipe \o f.dokladnosc \o Pipe
             \o FloatText(dose, 2) \o Pipe \o FloatText(avg, 2)

\* the four lines printed to the display
Screen(p, fix, dose, avg) ==
  IF p = "A"
    THEN LET f == FieldsA(fix)
         IN  << f.data \o <<" ">> \o f.czas,
                PrintFloat(fix.location.lat, 6) \o <<" ">>
                  \o PrintFloat(fix.location.lng, 6),
                <<"S", ":">> \o f.satelity \o <<" ", "H", ":">> \o f.hdop
                  \o <<" ", "D", ":">> \o f.dokladnosc \o <<"m">>,
                <<"u", "S", "v", ":">> \o PrintFloat(dose, 2)
                  \o <<" ", "A", "v", "g", ":">> \o PrintFloat(avg, 2) >>
    ELSE LET f == FieldsB(fix)
         IN  << f.data \o <<" ">> \o f.czas,
                (IF fix.location.valid THEN FloatText(fix.location.lat, 4)
                   ELSE <<"0", "0", ".", "0", "0", "0", "0">>) \o <<" ">>
                  \o (IF fix.location.valid THEN FloatText(fix.location.lng, 4)
                        ELSE <<"0", "0", ".", "0", "0", "0", "0">>),
                <<"S", ":">> \o f.satelity \o <<" ", "H", ":">> \o f.hdop
                  \o <<" ", "A", ":">> \o f.wysokosc \o <<"m">>,
                <<"N", "o", "w", ":">> \o FloatText(dose, 2)
                  \o <<" ", "A", "v", "g", ":">> \o FloatText(avg, 2) >>


(***************************************************************************)
(* The rolling window: total_uSv -= samples[i]; samples[i] = x;            *)
(* total_uSv += samples[i]; i = (i + 1) % NUM_SAMPLES                      *)
(***************************************************************************)
WindowInsert(w, x) ==
  [samples     |-> [w.samples EXCEPT ![w.sampleIndex] = x],
   sampleIndex |-> (w.sampleIndex + 1) % NUM_SAMPLES,
   total_uSv   |-> FAdd(FSub(w.total_uSv, w.samples[w.sampleIndex]), x)]

\* total_uSv / NUM_SAMPLES
AverageOf(total) == FDiv(total, FromInt(NUM_SAMPLES))

\* an interval check that also fires when exactly LOG_PERIOD has elapsed
DueFrom15000(cur, prev) == Gt32(Sub32(cur, prev), LOG_PERIOD - 1)

\* an interval check that compares the reading with the sum
\* previousMillis + LOG_PERIOD
DueByCompare(cur, prev) == Lt32(Add32(prev, U32(LOG_PERIOD)), cur)

\* currentMillis - previousMillis > LOG_PERIOD
Due(cur, prev) == Gt32(Sub32(cur, prev), LOG_PERIOD)

\* a debounce that also takes an edge exactly 150 us after the last one
AcceptsFrom150(t, last) == Gt32(Sub32(t, last), DEBOUNCE_US - 1)

\* a debounce that compares the reading with the sum lastInterruptTime + 150
AcceptsByCompare(t, last) == Lt32(Add32(last, U32(DEBOUNCE_US)), t)

\* t - lastInterruptTime > 150
Accepts(t, last) == Gt32(Sub32(t, last), DEBOUNCE_US)

(***************************************************************************)
(* State                                                                   *)
(***************************************************************************)
VARIABLES
  profile,            \* "A" or "B": which of the two sources is flashed
  pc,                 \* where the main context stands in setup()/loop()
  counts,             \* volatile unsigned long counts
  lastInterruptTime,  \* volatile unsigned long lastInterruptTime
  previousMillis,     \* unsigned long previousMillis
  samples,            \* float samples[NUM_SAMPLES]
  sampleIndex,        \* int sampleIndex
  total_uSv,          \* float total_uSv
  currentMillis,      \* loop(): unsigned long currentMillis
  lowByte,            \* loop(): the byte of counts loaded first
  cpm,                \* loop(): unsigned long cpm
  uSv,                \* loop(): float uSv
  average_uSv,        \* loop(): float average_uSv
  gps,                \* TinyGPSPlus gps: the decoded fix
  ss,                 \* SoftwareSerial ss: bytes received, not yet read
  serialLine,         \* Serial: the last line written
  oled,               \* display: the lines shown
  micros,             \* the microsecond counter micros() returns
  millis,             \* the millisecond counter millis() returns
  \* history variables, which the program does not hold
  nDiag,              \* diagnostic lines written to Serial
  nRecords,           \* records written to Serial
  nRefresh,           \* display refreshes of loop()
  nEdges,             \* falling edges handled by impulse()
  usWraps,            \* 1 once 2^32 us have passed since lastInterruptTime
  msWraps,            \* 1 once 2^32 ms have passed since previousMillis
  readCounts,         \* the value of counts loaded in the current cycle
  recent,             \* the doses of the latest cycles, oldest first
  nAccepted,          \* edges accepted by impulse()
  nReported,          \* the sum of the counts of the records written
  \* the ground station
  rxLine,             \* the line received from the controller
  tier                \* the alert tier of the record of that line

progVars == <<profile, pc, counts, lastInterruptTime, previousMillis, samples,
              sampleIndex, total_uSv, currentMillis, lowByte, cpm, uSv,
              average_uSv, gps, ss, serialLine, oled, micros, millis>>

histVars == <<nDiag, nRecords, nRefresh, nEdges, usWraps, msWraps,
              readCounts, recent, nAccepted, nReported>>

stationVars == <<rxLine, tier>>

vars == <<progVars, histVars, stationVars>>

\* history counters stop counting at HistCap
HistCap == 40

Count(n) == IF n < HistCap THEN n + 1 ELSE n

CountBy(n, k) == IF n + k < HistCap THEN n + k ELSE HistCap

\* recent keeps the last NUM_SAMPLES + 1 doses
Remember(h, x) ==
  IF Len(h) <= NUM_SAMPLES THEN Append(h, x) ELSE Append(Tail(h), x)

Window == [samples |-> samples, sampleIndex |-> sampleIndex,
           total_uSv |-> total_uSv]

\* the controller after reset, before setup()
InitController ==
  /\ profile \in {"A", "B"}
  /\ pc = "setup"
  /\ counts = 0
  /\ lastInterruptTime = U32(0)
  /\ previousMillis = U32(0)
  /\ samples = [i \in 0..(NUM_SAMPLES - 1) |-> FZero]
  /\ sampleIndex = 0
  /\ total_uSv = FZero
  /\ currentMillis = U32(0)
  /\ lowByte = 0
  /\ cpm = 0
  /\ uSv = FZero
  /\ average_uSv = FZero
  /\ gps = NoFix
  /\ ss = <<>>
  /\ serialLine = <<>>
  /\ oled = <<>>
  /\ micros = U32(0)
  /\ millis = U32(0)
  /\ nDiag = 0
  /\ nRecords = 0
  /\ nRefresh = 0
  /\ nEdges = 0
  /\ usWraps = 0
  /\ msWraps = 0
  /\ readCounts = 0
  /\ recent = <<>>
  /\ nAccepted = 0
  /\ nReported = 0

\* the ground station has received nothing
Init ==
  /\ InitController
  /\ rxLine = <<>>
  /\ tier = "None"

(***************************************************************************)
(* Time.  The two hardware counters advance on their own; d is a 32-bit    *)
(* word.  usWraps and msWraps record that the counter has come round to    *)
(* the reference value again.                                              *)
(***************************************************************************)
WrapsAfter(w, now, ref, d) ==
  IF w + Carry32(Sub32(now, ref), d) > 0 THEN 1 ELSE 0

MicrosAdvance(d) ==
  /\ micros' = Add32(micros, d)
  /\ usWraps' = WrapsAfter(usWraps, micros, lastInterruptTime, d)
  /\ UNCHANGED <<profile, pc, counts, lastInterruptTime, previousMillis,
                 samples, sampleIndex, total_uSv, currentMillis, lowByte,
                 cpm, uSv, average_uSv, gps, ss, serialLine, oled, millis>>
  /\ UNCHANGED <<nDiag, nRecords, nRefresh, nEdges, msWraps, readCounts,
                 recent, nAccepted, nReported>>
  /\ UNCHANGED stationVars

MillisAdvance(d) ==
  /\ millis' = Add32(millis, d)
  /\ msWraps' = WrapsAfter(msWraps, millis, previousMillis, d)
  /\ UNCHANGED <<profile, pc, counts, lastInterruptTime, previousMillis,
                 samples, sampleIndex, total_uSv, currentMillis, lowByte,
                 cpm, uSv, average_uSv, gps, ss, serialLine, oled, micros>>
  /\ UNCHANGED <<nDiag, nRecords, nRefresh, nEdges, usWraps, readCounts,
                 recent, nAccepted, nReported>>
  /\ UNCHANGED stationVars

\* a byte arrives from the GPS module and is buffered by SoftwareSerial
\* (ss.begin is called in setup, before the display is initialised)
GpsArrive(c) ==
  /\ pc # "setup"
  /\ ss' = Append(ss, c)
  /\ UNCHANGED <<profile, pc, counts, lastInterruptTime, previousMillis,
                 samples, sampleIndex, total_uSv, currentMillis, lowByte,
                 cpm, uSv, average_uSv, gps, serialLine, oled, micros,
                 millis>>
  /\ UNCHANGED histVars
  /\ UNCHANGED stationVars

(***************************************************************************)
(* void impulse(): the interrupt handler of the falling edge on pin 2,     *)
(* attached in setup().  It runs with interrupts disabled: one step.       *)
(***************************************************************************)
impulse ==
  /\ pc # "setup"
  /\ nEdges' = Count(nEdges)
  /\ IF Accepts(micros, lastInterruptTime)
       THEN /\ counts' = counts + 1
            /\ lastInterruptTime' = micros
            /\ usWraps' = 0
            /\ nAccepted' = Count(nAccepted)
       ELSE UNCHANGED <<counts, lastInterruptTime, usWraps, nAccepted>>
  /\ UNCHANGED <<profile, pc, previousMillis, samples, sampleIndex,
                 total_uSv, currentMillis, lowByte, cpm, uSv, average_uSv,
                 gps, ss, serialLine, oled, micros, millis>>
  /\ UNCHANGED <<nDiag, nRecords, nRefresh, msWraps, readCounts, recent,
                 nReported>>
  /\ UNCHANGED stationVars


(***************************************************************************)
(* void setup()                                                            *)
(***************************************************************************)
ErrorLine == <<"E", "R", "O", "R", " ", "O", "L", "E", "D", " ",
               "S", "T", "O", "P">>

Banner == << <<"C", "z", "e", "k", "a", "j", " ", "n", "a", " ", "G", "P", "S">>,
             <<"S", "z", "u", "k", "a", "m", " ", "s", "a", "t", "e", "l",
               "i", "t", "y">>,
             <<"K", "a", "l", "i", "b", "r", "a", "c", "j", "a", " ", "A",
               "v", "g", " ", "4", " ", "m", "i", "n">> >>

\* counts = 0; Serial.begin; ss.begin; pinMode; attachInterrupt
setup_attach ==
  /\ pc = "setup"
  /\ counts' = 0
  /\ pc' = "begin"
  /\ UNCHANGED <<profile, lastInterruptTime, previousMillis, samples,
                 sampleIndex, total_uSv, currentMillis, lowByte, cpm, uSv,
                 average_uSv, gps, ss, serialLine, oled, micros, millis>>
  /\ UNCHANGED histVars
  /\ UNCHANGED stationVars

\* a setup() that reports the failure and goes on to loop()
setup_failed_goes_on ==
  /\ pc = "begin"
  /\ serialLine' = ErrorLine
  /\ nDiag' = Count(nDiag)
  /\ pc' = "loop"
  /\ UNCHANGED <<profile, counts, lastInterruptTime, previousMillis, samples,
                 sampleIndex, total_uSv, currentMillis, lowByte, cpm, uSv,
                 average_uSv, gps, ss, oled, micros, millis>>
  /\ UNCHANGED <<nRecords, nRefresh, nEdges, usWraps, msWraps, readCounts,
                 recent, nAccepted, nReported>>
  /\ UNCHANGED stationVars

\* display.begin fails: one line on Serial, then for(;;);
setup_failed ==
  /\ pc = "begin"
  /\ serialLine' = ErrorLine
  /\ nDiag' = Count(nDiag)
  /\ pc' = "halt"
  /\ UNCHANGED <<profile, counts, lastInterruptTime, previousMillis, samples,
                 sampleIndex, total_uSv, currentMillis, lowByte, cpm, uSv,
                 average_uSv, gps, ss, oled, micros, millis>>
  /\ UNCHANGED <<nRecords, nRefresh, nEdges, usWraps, msWraps, readCounts,
                 recent, nAccepted, nReported>>
  /\ UNCHANGED stationVars

\* display.begin succeeds: the splash screen, delay(1000), the banner,
\* delay(1000).  The two delays let 2000 ms pass.
setup_banner ==
  /\ pc = "begin"
  /\ oled' = Banner
  /\ millis' = Add32(millis, U32(2000))
  /\ msWraps' = WrapsAfter(msWraps, millis, previousMillis, U32(2000))
  /\ micros' = Add32(micros, U32(2000000))
  /\ usWraps' = WrapsAfter(usWraps, micros, lastInterruptTime, U32(2000000))
  /\ pc' = "loop"
  /\ UNCHANGED <<profile, counts, lastInterruptTime, previousMillis, samples,
                 sampleIndex, total_uSv, currentMillis, lowByte, cpm, uSv,
                 average_uSv, gps, ss, serialLine>>
  /\ UNCHANGED <<nDiag, nRecords, nRefresh, nEdges, readCounts, recent,
                 nAccepted, nReported>>
  /\ UNCHANGED stationVars

\* for(;;);
halt ==
  /\ pc = "halt"
  /\ UNCHANGED vars

(***************************************************************************)
(* void loop()                                                             *)
(***************************************************************************)
\* a read that takes the byte that arrived last
loop_encode_newest ==
  /\ pc = "loop"
  /\ ss # <<>>
  /\ gps' = Encode(gps, ss[Len(ss)])
  /\ ss' = SubSeq(ss, 1, Len(ss) - 1)
  /\ UNCHANGED <<profile, pc, counts, lastInterruptTime, previousMillis,
                 samples, sampleIndex, total_uSv, currentMillis, lowByte,
                 cpm, uSv, average_uSv, serialLine, oled, micros, millis>>
  /\ UNCHANGED histVars
  /\ UNCHANGED stationVars

\* while (ss.available() > 0) gps.encode(ss.read());  one byte
loop_encode ==
  /\ pc = "loop"
  /\ ss # <<>>
  /\ gps' = Encode(gps, Head(ss))
  /\ ss' = Tail(ss)
  /\ UNCHANGED <<profile, pc, counts, lastInterruptTime, previousMillis,
                 samples, sampleIndex, total_uSv, currentMillis, lowByte,
                 cpm, uSv, average_uSv, serialLine, oled, micros, millis>>
  /\ UNCHANGED histVars
  /\ UNCHANGED stationVars

\* an end of the while loop that refreshes the display in every iteration
loop_drained_refreshes ==
  /\ pc = "loop"
  /\ ss = <<>>
  /\ oled' = Screen(profile, gps, uSv, average_uSv)
  /\ nRefresh' = Count(nRefresh)
  /\ pc' = "timer"
  /\ UNCHANGED <<profile, counts, lastInterruptTime, previousMillis, samples,
                 sampleIndex, total_uSv, currentMillis, lowByte, cpm, uSv,
                 average_uSv, gps, ss, serialLine, micros, millis>>
  /\ UNCHANGED <<nDiag, nRecords, nEdges, usWraps, msWraps, readCounts,
                 recent, nAccepted, nReported>>
  /\ UNCHANGED stationVars

\* ss.available() == 0: the while loop ends
loop_drained ==
  /\ pc = "loop"
  /\ ss = <<>>
  /\ pc' = "timer"
  /\ UNCHANGED <<profile, counts, lastInterruptTime, previousMillis, samples,
                 sampleIndex, total_uSv, currentMillis, lowByte, cpm, uSv,
                 average_uSv, gps, ss, serialLine, oled, micros, millis>>
  /\ UNCHANGED histVars
  /\ UNCHANGED stationVars

\* an interval check that starts a cycle only with a valid HDOP
loop_timer_needs_fix ==
  /\ pc = "timer"
  /\ currentMillis' = millis
  /\ IF Due(millis, previousMillis) /\ gps.hdop.valid
       THEN /\ previousMillis' = millis
            /\ msWraps' = 0
            /\ pc' = "load"
       ELSE /\ UNCHANGED <<previousMillis, msWraps>>
            /\ pc' = "loop"
  /\ UNCHANGED <<profile, counts, lastInterruptTime, samples, sampleIndex,
                 total_uSv, lowByte, cpm, uSv, average_uSv, gps, ss,
                 serialLine, oled, micros, millis>>
  /\ UNCHANGED <<nDiag, nRecords, nRefresh, nEdges, usWraps, readCounts,
                 recent, nAccepted, nReported>>
  /\ UNCHANGED stationVars

\* currentMillis = millis(); if (currentMillis - previousMillis > LOG_PERIOD)
\* previousMillis = currentMillis; ... else loop() returns
loop_timer ==
  /\ pc = "timer"
  /\ currentMillis' = millis
  /\ IF Due(millis, previousMillis)
       THEN /\ previousMillis' = millis
            /\ msWraps' = 0
            /\ pc' = "load"
       ELSE /\ UNCHANGED <<previousMillis, msWraps>>
            /\ pc' = "loop"
  /\ UNCHANGED <<profile, counts, lastInterruptTime, samples, sampleIndex,
                 total_uSv, lowByte, cpm, uSv, average_uSv, gps, ss,
                 serialLine, oled, micros, millis>>
  /\ UNCHANGED <<nDiag, nRecords, nRefresh, nEdges, usWraps, readCounts,
                 recent, nAccepted, nReported>>
  /\ UNCHANGED stationVars

\* the value of counts as the main context loads it: the 8-bit CPU loads
\* the four bytes one after the other, the lowest first, and impulse() may
\* run in between
LoadedCounts(low, c) == (c \div 256) * 256 + low

\* cpm = counts * (60000 / LOG_PERIOD): the lowest byte of counts is loaded
loop_load ==
  /\ pc = "load"
  /\ lowByte' = counts % 256
  /\ pc' = "geiger"
  /\ UNCHANGED <<profile, counts, lastInterruptTime, previousMillis, samples,
                 sampleIndex, total_uSv, currentMillis, cpm, uSv,
                 average_uSv, gps, ss, serialLine, oled, micros, millis>>
  /\ UNCHANGED histVars
  /\ UNCHANGED stationVars

\* a cycle that divides the sum by the number of slots written so far
loop_geiger_divides_by_filled ==
  /\ pc = "geiger"
  /\ LET c == LoadedCounts(lowByte, counts)
         x == FMul(FromInt(CpmOf(c)), uSv_per_CPM(profile))
         w == WindowInsert(Window, x)
         k == IF Len(recent) + 1 < NUM_SAMPLES THEN Len(recent) + 1
              ELSE NUM_SAMPLES
     IN  /\ cpm' = CpmOf(c)
         /\ uSv' = x
         /\ samples' = w.samples
         /\ sampleIndex' = w.sampleIndex
         /\ total_uSv' = w.total_uSv
         /\ average_uSv' = FDiv(w.total_uSv, FromInt(k))
         /\ readCounts' = c
         /\ recent' = Remember(recent, x)
  /\ pc' = "serial"
  /\ UNCHANGED <<profile, counts, lastInterruptTime, previousMillis,
                 currentMillis, lowByte, gps, ss, serialLine, oled, micros,
                 millis>>
  /\ UNCHANGED <<nDiag, nRecords, nRefresh, nEdges, usWraps, msWraps,
                 nAccepted, nReported>>
  /\ UNCHANGED stationVars

\* the upper bytes of counts are loaded; cpm, uSv, the window update and
\* average_uSv
loop_geiger ==
  /\ pc = "geiger"
  /\ LET c == LoadedCounts(lowByte, counts)
         x == FMul(FromInt(CpmOf(c)), uSv_per_CPM(profile))
         w == WindowInsert(Window, x)
     IN  /\ cpm' = CpmOf(c)
         /\ uSv' = x
         /\ samples' = w.samples
         /\ sampleIndex' = w.sampleIndex
         /\ total_uSv' = w.total_uSv
         /\ average_uSv' = AverageOf(w.total_uSv)
         /\ readCounts' = c
         /\ recent' = Remember(recent, x)
  /\ pc' = "serial"
  /\ UNCHANGED <<profile, counts, lastInterruptTime, previousMillis,
                 currentMillis, lowByte, gps, ss, serialLine, oled, micros,
                 millis>>
  /\ UNCHANGED <<nDiag, nRecords, nRefresh, nEdges, usWraps, msWraps,
                 nAccepted, nReported>>
  /\ UNCHANGED stationVars

\* a record step that decodes a waiting byte after the record is written
loop_serial_decodes ==
  /\ pc = "serial"
  /\ serialLine' = RecordLine(profile, gps, uSv, average_uSv)
  /\ nRecords' = Count(nRecords)
  /\ nReported' = CountBy(nReported, readCounts)
  /\ IF ss # <<>>
       THEN gps' = Encode(gps, Head(ss)) /\ ss' = Tail(ss)
       ELSE UNCHANGED <<gps, ss>>
  /\ pc' = "oled"
  /\ UNCHANGED <<profile, counts, lastInterruptTime, previousMillis, samples,
                 sampleIndex, total_uSv, currentMillis, lowByte, cpm, uSv,
                 average_uSv, oled, micros, millis>>
  /\ UNCHANGED <<nDiag, nRefresh, nEdges, usWraps, msWraps, readCounts,
                 recent, nAccepted>>
  /\ UNCHANGED stationVars

\* the fields are formatted and the record is written with Serial.println
loop_serial ==
  /\ pc = "serial"
  /\ serialLine' = RecordLine(profile, gps, uSv, average_uSv)
  /\ nRecords' = Count(nRecords)
  /\ nReported' = CountBy(nReported, readCounts)
  /\ pc' = "oled"
  /\ UNCHANGED <<profile, counts, lastInterruptTime, previousMillis, samples,
                 sampleIndex, total_uSv, currentMillis, lowByte, cpm, uSv,
                 average_uSv, gps, ss, oled, micros, millis>>
  /\ UNCHANGED <<nDiag, nRefresh, nEdges, usWraps, msWraps, readCounts,
                 recent, nAccepted>>
  /\ UNCHANGED stationVars

\* a display refresh that also clears counts
loop_oled_clears ==
  /\ pc = "oled"
  /\ oled' = Screen(profile, gps, uSv, average_uSv)
  /\ nRefresh' = Count(nRefresh)
  /\ counts' = 0
  /\ pc' = "reset"
  /\ UNCHANGED <<profile, lastInterruptTime, previousMillis, samples,
                 sampleIndex, total_uSv, currentMillis, lowByte, cpm, uSv,
                 average_uSv, gps, ss, serialLine, micros, millis>>
  /\ UNCHANGED <<nDiag, nRecords, nEdges, usWraps, msWraps, readCounts,
                 recent, nAccepted, nReported>>
  /\ UNCHANGED stationVars

\* display.clearDisplay() ... display.display()
loop_oled ==
  /\ pc = "oled"
  /\ oled' = Screen(profile, gps, uSv, average_uSv)
  /\ nRefresh' = Count(nRefresh)
  /\ pc' = "reset"
  /\ UNCHANGED <<profile, counts, lastInterruptTime, previousMillis, samples,
                 sampleIndex, total_uSv, currentMillis, lowByte, cpm, uSv,
                 average_uSv, gps, ss, serialLine, micros, millis>>
  /\ UNCHANGED <<nDiag, nRecords, nEdges, usWraps, msWraps, readCounts,
                 recent, nAccepted, nReported>>
  /\ UNCHANGED stationVars

\* a reset that keeps the pulses counted since counts was loaded
loop_reset_keeps_new ==
  /\ pc = "reset"
  /\ counts' = counts - readCounts
  /\ pc' = "loop"
  /\ UNCHANGED <<profile, lastInterruptTime, previousMillis, samples,
                 sampleIndex, total_uSv, currentMillis, lowByte, cpm, uSv,
                 average_uSv, gps, ss, serialLine, oled, micros, millis>>
  /\ UNCHANGED histVars
  /\ UNCHANGED stationVars

\* a cycle that ends without the reset
loop_reset_skipped ==
  /\ pc = "reset"
  /\ pc' = "loop"
  /\ UNCHANGED <<profile, counts, lastInterruptTime, previousMillis, samples,
                 sampleIndex, total_uSv, currentMillis, lowByte, cpm, uSv,
                 average_uSv, gps, ss, serialLine, oled, micros, millis>>
  /\ UNCHANGED histVars
  /\ UNCHANGED stationVars

\* counts = 0: four byte stores, the lowest byte first; an impulse() in
\* between leaves the same value as one that follows the whole store
loop_reset ==
  /\ pc = "reset"
  /\ counts' = 0
  /\ pc' = "loop"
  /\ UNCHANGED <<profile, lastInterruptTime, previousMillis, samples,
                 sampleIndex, total_uSv, currentMillis, lowByte, cpm, uSv,
                 average_uSv, gps, ss, serialLine, oled, micros, millis>>
  /\ UNCHANGED histVars
  /\ UNCHANGED stationVars

\* the steps of the main context
Main ==
  \/ setup_attach
  \/ setup_failed
  \/ setup_banner
  \/ halt
  \/ loop_encode
  \/ loop_drained
  \/ loop_timer
  \/ loop_load
  \/ loop_geiger
  \/ loop_serial
  \/ loop_oled
  \/ loop_reset

(***************************************************************************)
(* The environment of a specification is bounded by stopping its clocks:   *)
(* the microsecond counter runs while edges remain and it is at most       *)
(* `ahead` past lastInterruptTime, the millisecond counter while records   *)
(* remain and it is at most `ahead` past previousMillis.                   *)
(***************************************************************************)
UsRuns(edges, ahead) ==
  nEdges < edges /\ ~Gt32(Sub32(micros, lastInterruptTime), ahead)

MsRuns(records, ahead) ==
  nRecords < records /\ ~Gt32(Sub32(millis, previousMillis), ahead)

HdopByte(h) == [set |-> [hdop |-> [value |-> h]]]

(***************************************************************************)
(* Spec: the whole controller in a small environment.  Edges arrive on a   *)
(* 100 us grid, the millisecond counter is read every 7501 ms, the GPS     *)
(* sends bytes that commit HDOP 1.25.                                      *)
(***************************************************************************)
MaxEdges == 2
MaxRecords == 2
MaxSs == 1

GpsBytes == {HdopByte(125)}

Next ==
  \/ Main
  \/ nEdges < MaxEdges /\ impulse
  \/ UsRuns(MaxEdges, DEBOUNCE_US) /\ MicrosAdvance(U32(100))
  \/ MsRuns(MaxRecords, LOG_PERIOD) /\ MillisAdvance(U32(7501))
  \/ \E c \in GpsBytes : Len(ss) < MaxSs /\ GpsArrive(c)

Spec == Init /\ [][Next]_vars

(***************************************************************************)
(* SpecDebounce: the interrupt handler alone, with edges 100, 150, 151     *)
(* us apart and with pauses of 2^32 - 100 us, during which the             *)
(* microsecond counter overflows.                                          *)
(***************************************************************************)
DebEdges == 4

\* 2^32 - n as a 32-bit word
U32Minus(n) == Sub32(U32(0), U32(n))

DebSteps == {U32(100), U32(150), U32(151), U32Minus(100)}

NextDebounce ==
  \/ setup_attach
  \/ nEdges < DebEdges /\ impulse
  \/ \E d \in DebSteps : UsRuns(DebEdges, 200) /\ MicrosAdvance(d)

SpecDebounce == Init /\ [][NextDebounce]_vars

(***************************************************************************)
(* C1  Pulse debounce                                                      *)
(***************************************************************************)
\* the time on the microsecond counter since the last accepted edge
ElapsedUs == Sub32(micros, lastInterruptTime)

\* C1 as stated: impulse() accepts an edge (counts + 1, timestamp := now)
\* if and only if the time that has really passed since the last accepted
\* edge exceeds 150 us, and otherwise leaves both unchanged
C1_AsStated ==
  [][nEdges' # nEdges =>
       IF usWraps > 0 \/ ElapsedUs.hi > 0 \/ ElapsedUs.lo > 150
         THEN counts' = counts + 1 /\ lastInterruptTime' = micros
         ELSE counts' = counts /\ lastInterruptTime' = lastInterruptTime]_vars

\* C1 amended: impulse() accepts an edge if and only if the time since the
\* last accepted edge as the 32-bit microsecond counter measures it (the
\* elapsed time modulo 2^32; the timestamp is 0 at startup) exceeds 150 us,
\* and otherwise leaves counts and the timestamp unchanged; no step other
\* than an accepted edge changes the timestamp, so any two accepted edges
\* are more than 150 us apart
C1_Debounce ==
  [][/\ nEdges' # nEdges =>
          IF ElapsedUs.hi > 0 \/ ElapsedUs.lo > 150
            THEN counts' = counts + 1 /\ lastInterruptTime' = micros
            ELSE counts' = counts /\ lastInterruptTime' = lastInterruptTime
     /\ lastInterruptTime' # lastInterruptTime =>
          /\ nEdges' # nEdges
          /\ counts' = counts + 1
          /\ usWraps > 0 \/ ElapsedUs.hi > 0 \/ ElapsedUs.lo > 150]_vars

\* two edges 100 us apart, of which the first was counted and the second
\* was not
C1_Witness ==
  /\ nEdges = 2
  /\ counts = 1
  /\ usWraps = 0
  /\ ElapsedUs = U32(100)

(***************************************************************************)
(* SpecCpm: logging cycles of a controller whose display works and whose   *)
(* GPS module is silent, with up to CpmPulses edges 200 us apart in a      *)
(* cycle, which arrive between two iterations of loop() or between the     *)
(* two loads of counts; the millisecond counter is read every 15001 ms.    *)
(***************************************************************************)
CpmPulses == 37
CpmRecords == 1

NextCpm ==
  \/ setup_attach
  \/ setup_banner
  \/ loop_drained
  \/ loop_timer
  \/ loop_load
  \/ loop_geiger
  \/ loop_serial
  \/ loop_oled
  \/ loop_reset
  \/ /\ pc \in {"loop", "geiger"}
     /\ nRecords < CpmRecords
     /\ counts < CpmPulses
     /\ Gt32(Sub32(micros, lastInterruptTime), DEBOUNCE_US)
     /\ impulse
  \/ pc = "loop" /\ UsRuns(HistCap + 1, DEBOUNCE_US) /\ MicrosAdvance(U32(200))
  \/ MsRuns(CpmRecords, LOG_PERIOD) /\ MillisAdvance(U32(15001))

SpecCpm == Init /\ [][NextCpm]_vars

(***************************************************************************)
(* C2  Counts per minute                                                   *)
(***************************************************************************)
\* C2: in every logging cycle the cpm value from which the record is made
\* is four times the value of counts loaded at the start of the cycle, and
\* the dose of the record is that cpm times the coefficient; 37 pulses
\* give cpm 148
C2_Cpm ==
  pc \in {"serial", "oled", "reset"} =>
    /\ cpm = readCounts + readCounts + readCounts + readCounts
    /\ uSv = FMul(FromInt(cpm), uSv_per_CPM(profile))
    /\ readCounts = 37 => cpm = 148

\* a cycle that loaded 37 pulses and has written its record with cpm 148
C2_Witness ==
  /\ pc = "oled"
  /\ nRecords = 1
  /\ readCounts = 37
  /\ cpm = 148

(***************************************************************************)
(* SpecWindow: WinRecords logging cycles, enough for the window to fill    *)
(* and to be overwritten.  The source sends up to WinPulses edges during   *)
(* the first WinSourceCycles cycles and is then taken away; the GPS        *)
(* module is silent.                                                       *)
(***************************************************************************)
WinRecords == 18
WinPulses == 7
WinSourceCycles == 2

NextWindow ==
  \/ setup_attach
  \/ setup_banner
  \/ loop_drained
  \/ loop_timer
  \/ loop_load
  \/ loop_geiger
  \/ loop_serial
  \/ loop_oled
  \/ loop_reset
  \/ /\ pc \in {"loop", "geiger"}
     /\ nRecords < WinSourceCycles
     /\ nEdges < WinPulses
     /\ Gt32(Sub32(micros, lastInterruptTime), DEBOUNCE_US)
     /\ impulse
  \/ pc = "loop" /\ UsRuns(WinPulses, DEBOUNCE_US) /\ MicrosAdvance(U32(200))
  \/ MsRuns(WinRecords, LOG_PERIOD) /\ MillisAdvance(U32(15001))

SpecWindow == Init /\ [][NextWindow]_vars

(***************************************************************************)
(* C3, C4  The window of 16 samples                                        *)
(***************************************************************************)
RECURSIVE SumTo(_, _)
\* f[0] + ... + f[n-1] in float arithmetic
SumTo(f, n) == IF n = 0 THEN FZero ELSE FAdd(SumTo(f, n - 1), f[n - 1])

\* the doses of the latest 16 cycles, indexed 0..15, oldest first
Latest16 == [i \in 0..(NUM_SAMPLES - 1) |-> recent[Len(recent) - NUM_SAMPLES + 1 + i]]

\* C3 as stated: from the 16th logging cycle on, the average reported in a
\* cycle is the sum of the doses of the latest 16 cycles divided by 16, so
\* that no older dose contributes to it
C3_AsStated ==
  (pc \in {"serial", "oled", "reset"} /\ Len(recent) >= NUM_SAMPLES) =>
    average_uSv = FDiv(SumTo(Latest16, NUM_SAMPLES), FromInt(NUM_SAMPLES))

\* C4 as stated: in every state outside the update, from startup on, the
\* running sum total_uSv is the sum of the 16 values stored in samples
C4_AsStated == total_uSv = SumTo(samples, NUM_SAMPLES)

(***************************************************************************)
(* SpecFormat: logging cycles while the GPS module sends sentences that    *)
(* commit one object each, in any order, so that every combination of      *)
(* validity flags occurs; no pulses.  A byte that arrives during a cycle   *)
(* is read at the next iteration of loop() and is modelled as arriving     *)
(* there.                                                                  *)
(*   date 4.11.2025, time 9:05:07, latitude 52.25, longitude 21.0,         *)
(*   altitude 113.5 m, 8 satellites, HDOP 0.98                             *)
(***************************************************************************)
FmtRecords == 1
FmtSs == 1

FmtBytes ==
  { [set |-> [date |-> [day |-> 4, month |-> 11, year |-> 2025]]],
    [set |-> [time |-> [hour |-> 9, minute |-> 5, second |-> 7]]],
    [set |-> [location |-> [lat |-> FLit(0, 209, -2), lng |-> FromInt(21)]]],
    [set |-> [altitude |-> [meters |-> FLit(0, 227, -1)]]],
    [set |-> [satellites |-> [value |-> 8]]],
    HdopByte(98) }

NextFormat ==
  \/ setup_attach
  \/ setup_banner
  \/ loop_encode
  \/ loop_drained
  \/ loop_timer
  \/ loop_load
  \/ loop_geiger
  \/ loop_serial
  \/ loop_oled
  \/ loop_reset
  \/ MsRuns(FmtRecords, LOG_PERIOD) /\ MillisAdvance(U32(15001))
  \/ \E c \in FmtBytes : pc = "loop" /\ Len(ss) < FmtSs /\ GpsArrive(c)

SpecFormat == Init /\ [][NextFormat]_vars

(***************************************************************************)
(* C6  Fallback literals                                                   *)
(***************************************************************************)
RECURSIVE SplitAtPipes(_, _)
\* the fields of a line: cur is the field read so far
SplitAtPipes(line, cur) ==
  IF line = <<>> THEN <<cur>>
  ELSE IF Head(line) = "|" THEN <<cur>> \o SplitAtPipes(Tail(line), <<>>)
  ELSE SplitAtPipes(Tail(line), Append(cur, Head(line)))

FieldsOf(line) == SplitAtPipes(line, <<>>)

NumPipes(line) == Cardinality({i \in 1..Len(line) : line[i] = "|"})

\* the texts the format table gives for the fix of SpecFormat and for a
\* missing object
ExpectedGpsFields(p, fix) ==
  IF p = "A"
    THEN << IF fix.date.valid THEN <<"4", ".", "1", "1", ".", "2", "0", "2", "5", "r", ".">> ELSE <<"0", "0", ".", "0", "0", ".", "0", "0", "0", "0", "r", ".">>,
            IF fix.time.valid THEN <<"9", ":", "0", "5", ":", "0", "7">> ELSE <<"0", "0", ":", "0", "0", ":", "0", "0">>,
            IF fix.location.valid THEN <<"5", "2", ".", "2", "5", "0", "0", "0", "0">> ELSE <<"0", ".", "0", "0", "0", "0", "0", "0">>,
            IF fix.location.valid THEN <<"2", "1", ".", "0", "0", "0", "0", "0", "0">> ELSE <<"0", ".", "0", "0", "0", "0", "0", "0">>,
            IF fix.altitude.valid THEN <<"1", "1", "3", ".", "5", "0">> ELSE <<"0", ".", "0", "0">>,
            IF fix.satellites.valid THEN <<"8">> ELSE <<"0">>,
            IF fix.hdop.valid THEN <<"0", ".", "9", "8">> ELSE <<"0", ".", "0", "0">> >>
    ELSE << IF fix.date.valid THEN <<"0", "4", ".", "1", "1", ".", "2", "5">> ELSE <<"0", "0", ".", "0", "0", ".", "0", "0">>,
            IF fix.time.valid THEN <<"0", "9", ":", "0", "5", ":", "0", "7">> ELSE <<"0", "0", ":", "0", "0", ":", "0", "0">>,
            IF fix.location.valid THEN <<"5", "2", ".", "2", "5", "0", "0", "0", "0">> ELSE <<"0", "0", ".", "0", "0", "0", "0", "0", "0">>,
            IF fix.location.valid THEN <<"2", "1", ".", "0", "0", "0", "0", "0", "0">> ELSE <<"0", "0", ".", "0", "0", "0", "0", "0", "0">>,
            IF fix.altitude.valid THEN <<"1", "1", "3">> ELSE <<"0">>,
            IF fix.satellites.valid THEN <<"8">> ELSE <<"0">>,
            IF fix.hdop.valid THEN <<"1", ".", "0">> ELSE <<"0">> >>

C5_Halt ==
  /\ [](nDiag > 0 \/ pc = "halt" =>
          /\ pc = "halt"
          /\ nDiag = 1
          /\ serialLine = ErrorLine
          /\ nRecords = 0
          /\ nRefresh = 0
          /\ oled = <<>>)
  /\ [][pc = "halt" => pc' = "halt"]_vars

\* the halted controller after a pulse was counted and a GPS byte was
\* buffered
C5_Witness ==
  /\ pc = "halt"
  /\ nDiag = 1
  /\ counts > 0
  /\ ss # <<>>

(***************************************************************************)
(* C9  Estimated accuracy                                                  *)
(***************************************************************************)
\* C9 as stated: for a valid raw HDOP h the accuracy field of the record is
\* h * 3 / 100 rounded to the nearest integer in profile A and truncated in
\* profile B (h = 125: 4 in A, 3 in B)
C9_AsStated ==
  [][(nRecords' # nRecords /\ gps.hdop.valid) =>
       FieldsOf(serialLine')[8] =
         IntText(IF profile = "A"
                   THEN (gps.hdop.value * 3 * 2 + 100) \div 200
                   ELSE (gps.hdop.value * 3) \div 100)]_vars

(***************************************************************************)
(* C10  The mutators of counts                                             *)
(***************************************************************************)
\* C10: a step changes counts only if it is impulse(), which adds one, or
\* the reset at the end of a logging cycle, which sets it to zero after the
\* record of the cycle has been written and the display refreshed; counts
\* decreases in no other step
C10_Mutators ==
  [][counts' # counts =>
       \/ nEdges' = nEdges + 1 /\ pc' = pc /\ counts' = counts + 1
       \/ /\ pc = "reset" /\ pc' = "loop"
          /\ counts' = 0
          /\ nEdges' = nEdges
          /\ nRecords > 0 /\ nRefresh = nRecords /\ nRecords' = nRecords]_vars

\* a cycle has loaded a non-zero count, written its record and reset
\* counts
C10_Witness ==
  /\ pc = "loop"
  /\ nRecords = 1
  /\ readCounts > 0
  /\ counts = 0
  /\ nEdges > 0

(***************************************************************************)
(* SpecTimer: the interval check.  The millisecond counter is read after   *)
(* 2000, 13000 or 13001 ms, so that 15000 and 15001 ms occur, or after a   *)
(* pause of 2^32 - 20000 ms, after which the counter overflows within the  *)
(* next interval; time passes between two iterations of loop() and while   *)
(* the display is refreshed.  No pulses, no GPS.                           *)
(***************************************************************************)
TimerRecords == 2

TimerSteps == {U32(2000), U32(13000), U32(13001), U32Minus(20000)}

NextTimer ==
  \/ setup_attach
  \/ setup_banner
  \/ loop_drained
  \/ loop_timer
  \/ loop_load
  \/ loop_geiger
  \/ loop_serial
  \/ loop_oled
  \/ loop_reset
  \/ \E d \in TimerSteps :
       /\ pc \in {"loop", "oled"}
       /\ MsRuns(TimerRecords, LOG_PERIOD)
       /\ MillisAdvance(d)

SpecTimer == Init /\ [][NextTimer]_vars

(***************************************************************************)
(* C8  Logging interval                                                    *)
(***************************************************************************)
\* the time on the millisecond counter since the reading of the previous
\* logging cycle
ElapsedMs == Sub32(millis, previousMillis)

\* C8: the interval check of an iteration of loop() starts a logging cycle
\* and records the clock reading if and only if more than 15000 ms have
\* elapsed on the millisecond counter since the recorded reading (0 at
\* startup), and otherwise ends the iteration with the reading unchanged;
\* a record is written only in a cycle started by such a check, one record
\* per check; the first cycle starts at 15001 ms or later
C8_Interval ==
  [][/\ (pc = "timer" /\ pc' # pc) =>
          IF ElapsedMs.hi > 0 \/ ElapsedMs.lo > 15000
            THEN pc' = "load" /\ previousMillis' = millis
            ELSE pc' = "loop" /\ previousMillis' = previousMillis
     /\ (pc # "timer" /\ pc # "setup") => previousMillis' = previousMillis
     /\ (pc' # pc /\ pc' \in {"load", "geiger", "serial", "oled", "reset"}) =>
          <<pc, pc'>> \in {<<"timer", "load">>, <<"load", "geiger">>,
                          <<"geiger", "serial">>, <<"serial", "oled">>,
                          <<"oled", "reset">>}
     /\ nRecords' # nRecords =>
          pc = "serial" /\ pc' = "oled" /\ nRecords' = nRecords + 1
     /\ (pc' = "load" /\ pc # "load" /\ nRecords = 0) =>
          /\ previousMillis = U32(0)
          /\ millis.hi > 0 \/ millis.lo >= 15001]_vars

\* an interval check made exactly 15000 ms after the reading of the first
\* logging cycle has ended the iteration without a cycle
C8_Witness ==
  /\ pc = "loop"
  /\ nRecords = 1
  /\ currentMillis = millis
  /\ ElapsedMs = U32(15000)

(***************************************************************************)
(* SpecLive: the controller running for ever.  The millisecond counter is  *)
(* read 2^30 ms apart, so that it takes four values; the GPS sends date    *)
(* and HDOP sentences without end; the source sends up to LivePulses       *)
(* edges during the first LiveSourceCycles cycles, all at one reading of   *)
(* the microsecond counter.  Edges and bytes that arrive during a cycle    *)
(* are modelled as arriving between two iterations of loop().              *)
(*   Fairness: the main context always goes on to its next statement, so   *)
(* that the loop that drains the GPS buffer ends although bytes may keep   *)
(* arriving; the millisecond counter advances.                             *)
(***************************************************************************)
LivePulses == 1
LiveSourceCycles == 1
LiveSs == 1

\* 2^30
LongStep == [hi |-> 16384, lo |-> 0]

LiveBytes ==
  { [set |-> [date |-> [day |-> 4, month |-> 11, year |-> 2025]]],
    HdopByte(125) }

LiveClock ==
  ~Gt32(Sub32(millis, previousMillis), LOG_PERIOD) /\ MillisAdvance(LongStep)

NextLive ==
  \/ Main
  \/ /\ pc = "loop"
     /\ nRecords < LiveSourceCycles
     /\ nEdges < LivePulses
     /\ impulse
  \/ LiveClock
  \/ \E c \in LiveBytes : pc = "loop" /\ Len(ss) < LiveSs /\ GpsArrive(c)

\* the main context, once in loop(), leaves the statement it is at: the
\* processor does not stop, and the loop that drains the GPS buffer ends
Statements == {"loop", "timer", "load", "geiger", "serial", "oled", "reset"}

MainMoves == \E q \in Statements : pc \in Statements /\ q # pc /\ pc' = q

\* Serial.println(dane) of loop(): the step from "serial" to "oled"
RecordWritten == pc = "serial" /\ pc' = "oled"

SpecLive ==
  /\ Init
  /\ [][NextLive]_vars
  /\ WF_pc(MainMoves)
  /\ WF_vars(LiveClock)

(***************************************************************************)
(* C7  Records keep coming                                                 *)
(***************************************************************************)
\* C7: if display initialisation succeeded (loop() is reached), then,
\* whatever the GPS sends and whatever pulses arrive, a record is written
\* to Serial again and again for ever
C7_Live == <>(pc = "loop") => []<><<RecordWritten>>_pc

\* the 17th record has been written, with a date but no valid HDOP, after
\* a pulse was counted
C7_Witness ==
  /\ pc = "oled"
  /\ nRecords = 17
  /\ nEdges > 0
  /\ gps.date.valid
  /\ ~gps.hdop.valid

(***************************************************************************)
(* C11  A pulse between the read and the reset is lost                     *)
(***************************************************************************)
\* the accepted pulses that are neither in a record nor still to be
\* reported: while a cycle is between its record and its reset, counts
\* still holds the pulses of the record
Pending == IF pc \in {"oled", "reset"} THEN counts - readCounts ELSE counts

Lost == nAccepted - nReported - Pending

\* C11: the reset at the end of a cycle discards the pulses accepted since
\* counts was loaded: they were not in the record of the cycle and, once
\* discarded, are in the cpm of no later record (the number of lost pulses
\* never goes down); the interleaving in which this happens is reachable
C11_LostPulse ==
  [][/\ (pc = "reset" /\ pc' = "loop") => Lost' = Lost + (counts - readCounts)
     /\ Lost' >= Lost
     /\ Lost >= 0]_vars

\* a pulse was accepted after counts was loaded, the record of the cycle
\* was written without it, and the reset has discarded it
C11_Witness ==
  /\ pc = "loop"
  /\ nRecords = 1
  /\ nAccepted = 1
  /\ nReported = 0
  /\ counts = 0
  /\ Lost = 1

(***************************************************************************)
(* The ground station (python/geiger_v21.py): the alert tier of a received *)
(* record, with the tiers as the operating instructions give them          *)
(***************************************************************************)
AlertMaxDose == 120

DigitVal(ch) == CHOOSE d \in 0..9 : Digits[d + 1] = ch

RECURSIVE NatOf(_)
NatOf(t) ==
  IF t = <<>> THEN 0
  ELSE NatOf(SubSeq(t, 1, Len(t) - 1)) * 10 + DigitVal(t[Len(t)])

\* the value of a dose field "d.dd" or "-d.dd", in hundredths of a uSv/h
Hundredths(text) ==
  LET neg   == text # <<>> /\ Head(text) = "-"
      body  == IF neg THEN Tail(text) ELSE text
      dot   == CHOOSE i \in 1..Len(body) : body[i] = "."
      whole == NatOf(SubSeq(body, 1, dot - 1))
      frac  == NatOf(SubSeq(body, dot + 1, Len(body)))
      v     == whole * 100 + frac
  IN  IF neg THEN 0 - v ELSE v

\* the instantaneous dose is the field before the last one of a record
DoseField(line) == LET f == FieldsOf(line) IN f[Len(f) - 1]

\* the upper boundary 1.0 left out of Elevated
TierOfOpenTop(h) ==
  IF h < 15 THEN "Safe" ELSE IF h >= 100 THEN "Dangerous" ELSE "Elevated"

\* green below 0.15, orange from 0.15 to 1.0, red above 1.0
TierOf(h) ==
  IF h < 15 THEN "Safe" ELSE IF h > 100 THEN "Dangerous" ELSE "Elevated"

\* the records the controller writes for the doses 0.00 .. AlertMaxDose/100
\* and for a dose that prints as "-0.00"
AlertDoses ==
  {FDiv(FromInt(h), FromInt(100)) : h \in 0..AlertMaxDose}
    \cup {FLit(1, 1, -10)}

InitAlert ==
  /\ InitController
  /\ rxLine \in {RecordLine(profile, NoFix, d, FZero) : d \in AlertDoses}
  /\ tier = "None"

station_classify ==
  /\ tier = "None"
  /\ tier' = TierOf(Hundredths(DoseField(rxLine)))
  /\ UNCHANGED <<progVars, histVars, rxLine>>

NextAlert == station_classify

SpecAlert == InitAlert /\ [][NextAlert]_vars

(***************************************************************************)
(* C12  The alert tiers are total and exclusive                            *)
(***************************************************************************)
RxDose == Hundredths(DoseField(rxLine))

\* C12: every classified record is in exactly one of the three tiers: Safe
\* when its dose is below 0.15, Elevated when it is from 0.15 to 1.0, both
\* included, Dangerous when it is above 1.0; 0.10 is Safe, 0.15 and 1.00
\* are Elevated, 1.01 is Dangerous
C12_Tiers ==
  tier # "None" =>
    /\ tier \in {"Safe", "Elevated", "Dangerous"}
    /\ tier = "Safe" <=> RxDose < 15
    /\ tier = "Elevated" <=> (15 <= RxDose /\ RxDose <= 100)
    /\ tier = "Dangerous" <=> RxDose > 100
    /\ DoseField(rxLine) = <<"0", ".", "1", "0">> => tier = "Safe"
    /\ DoseField(rxLine) = <<"0", ".", "1", "5">> => tier = "Elevated"
    /\ DoseField(rxLine) = <<"1", ".", "0", "0">> => tier = "Elevated"
    /\ DoseField(rxLine) = <<"1", ".", "0", "1">> => tier = "Dangerous"

\* a record with the dose 1.00 has been classified
C12_Witness ==
  /\ tier = "Elevated"
  /\ DoseField(rxLine) = <<"1", ".", "0", "0">>

(***************************************************************************)
(* C13  The order of the steps of a logging cycle                          *)
(***************************************************************************)
\* the steps of the main context between the interval check and the reset
CycleOrder ==
  /\ (pc = "timer" /\ pc' # pc) => pc' \in {"loop", "load"}
  /\ (pc = "load" /\ pc' # pc) => pc' = "geiger"
  /\ (pc = "geiger" /\ pc' # pc) =>
       /\ pc' = "serial"
       /\ sampleIndex' = (sampleIndex + 1) % NUM_SAMPLES
       /\ cpm' = CpmOf(readCounts')
       /\ nRecords' = nRecords /\ nRefresh' = nRefresh
  /\ (pc = "serial" /\ pc' # pc) =>
       /\ pc' = "oled"
       /\ nRecords' = nRecords + 1 /\ nRefresh' = nRefresh
       /\ sampleIndex' = sampleIndex
  /\ (pc = "oled" /\ pc' # pc) =>
       /\ pc' = "reset"
       /\ nRefresh' = nRefresh + 1 /\ nRecords' = nRecords
       /\ sampleIndex' = sampleIndex
  /\ (pc = "reset" /\ pc' # pc) =>
       /\ pc' = "loop"
       /\ counts' = 0
       /\ nRefresh' = nRefresh /\ nRecords' = nRecords
       /\ sampleIndex' = sampleIndex

\* each of the four steps is taken nowhere else
CycleOnly ==
  /\ (samples' # samples \/ sampleIndex' # sampleIndex \/ cpm' # cpm
        \/ total_uSv' # total_uSv \/ readCounts' # readCounts)
       => pc = "geiger"
  /\ (nRecords' # nRecords \/ serialLine' # serialLine)
       => (pc = "serial" \/ pc = "begin")
  /\ nRecords' # nRecords => pc = "serial"
  /\ oled' # oled => (pc = "oled" \/ pc = "begin")
  /\ nRefresh' # nRefresh => pc = "oled"
  /\ counts' < counts => pc = "reset"

\* C13: a logging cycle computes cpm, the dose and the window from the
\* loaded count, writes one record, refreshes the display once and resets
\* counts, in this order and once each; after the banner the display is
\* refreshed only by the third step, so the refreshes are as many as the
\* records, or one less between the record and the refresh
C13_Order ==
  /\ [](\/ nRefresh = nRecords
        \/ pc = "oled" /\ nRefresh + 1 = nRecords)
  /\ [][CycleOrder /\ CycleOnly]_vars

\* the second cycle is between its record and its refresh
C13_Witness ==
  /\ pc = "oled"
  /\ nRecords = 2
  /\ nRefresh = 1

(***************************************************************************)
(* SpecIngest: the GPS channel.  Up to IngestSs bytes wait in the receive  *)
(* buffer; bytes arrive at any point of loop(), also during a logging      *)
(* cycle; two of the bytes commit different HDOP values, so the order of   *)
(* decoding shows in the fix.  No pulses.                                  *)
(***************************************************************************)
IngestSs == 2
IngestRecords == 1

IngestBytes ==
  { HdopByte(98), HdopByte(125), [set |-> [satellites |-> [value |-> 8]]] }

NextIngest ==
  \/ Main
  \/ MsRuns(IngestRecords, LOG_PERIOD) /\ MillisAdvance(U32(15001))
  \/ \E c \in IngestBytes : Len(ss) < IngestSs /\ GpsArrive(c)

SpecIngest == Init /\ [][NextIngest]_vars

(***************************************************************************)
(* C14  GPS bytes are decoded in every iteration, in arrival order         *)
(***************************************************************************)
\* one byte was put at the end of the receive buffer
Arrived == Len(ss') = Len(ss) + 1 /\ SubSeq(ss', 1, Len(ss)) = ss

\* C14: loop() gets to the interval check only with the receive buffer
\* empty, whether a cycle is due or not; the buffer changes only by a byte
\* arriving at its end or by loop() decoding the byte at its front into
\* gps before the interval check; the steps of the logging cycle take no
\* byte out of the buffer
C14_Ingestion ==
  [][/\ (pc = "loop" /\ pc' # pc) => (ss = <<>> /\ pc' = "timer")
     /\ ss' # ss =>
          \/ Arrived /\ gps' = gps
          \/ /\ pc = "loop" /\ pc' = "loop"
             /\ ss # <<>>
             /\ ss' = Tail(ss)
             /\ gps' = Encode(gps, Head(ss))
     /\ gps' # gps => (pc = "loop" /\ ss # <<>> /\ ss' = Tail(ss))
     /\ (pc \notin {"loop", "setup", "begin", "halt"} /\ ss' # ss)
          => Arrived]_vars

\* the interval check was reached with the buffer empty; two bytes have
\* arrived during the cycle, HDOP 0.98 before HDOP 1.25, and both wait in
\* this order when the cycle is about to reset counts
C14_Witness ==
  /\ pc = "reset"
  /\ nRecords = 1
  /\ ss = <<HdopByte(98), HdopByte(125)>>
  /\ ~gps.hdop.valid

(***************************************************************************)
(* C15  A logging cycle leaves the GPS fix alone                           *)
(***************************************************************************)
\* C15: from the interval check to the reset no step changes gps, also
\* when bytes arrive meanwhile; when the cycle gets to its reset, the
\* record written and the screen drawn are those of one and the same fix,
\* the current one, and of the same dose and average
C15_SameFix ==
  /\ [][(pc \in {"timer", "load", "geiger", "serial", "oled", "reset"})
          => gps' = gps]_vars
  /\ [](pc = "reset" =>
          /\ serialLine = RecordLine(profile, gps, uSv, average_uSv)
          /\ oled = Screen(profile, gps, uSv, average_uSv))

\* record and screen of a cycle are out, both with HDOP 0.98, while a
\* byte that commits HDOP 1.25 has arrived during the cycle and waits
C15_Witness ==
  /\ pc = "reset"
  /\ nRecords = 1
  /\ nRefresh = 1
  /\ gps.hdop.valid /\ gps.hdop.value = 98
  /\ ss = <<HdopByte(125)>>

(***************************************************************************)
(* SpecAtomic: the controller with every access to counts atomic: no       *)
(* impulse() between the load of the lowest byte of counts and the load of *)
(* its upper bytes.  impulse() runs between any two other steps.  The GPS  *)
(* sends its bytes between two iterations of loop().                       *)
(***************************************************************************)
AtomicEdges == 2
AtomicRecords == 2

NextAtomic ==
  \/ Main
  \/ pc # "geiger" /\ nEdges < AtomicEdges /\ impulse
  \/ UsRuns(AtomicEdges, DEBOUNCE_US) /\ MicrosAdvance(U32(100))
  \/ MsRuns(AtomicRecords, LOG_PERIOD) /\ MillisAdvance(U32(7501))
  \/ \E c \in GpsBytes : pc = "loop" /\ Len(ss) < MaxSs /\ GpsArrive(c)

SpecAtomic == Init /\ [][NextAtomic]_vars

(***************************************************************************)
(* C16  No pulse is counted twice                                          *)
(***************************************************************************)
\* C16: with atomic accesses to counts, in every interleaving of impulse()
\* with loop() the counts of the records written so far add up to no more
\* than the pulses accepted so far, also together with the pulses that
\* are still in counts for a later record: an accepted pulse is in one
\* record at most
C16_NoDoubleCount ==
  /\ nReported <= nAccepted
  /\ nReported + Pending <= nAccepted
  /\ pc \in {"oled", "reset", "loop", "timer", "load"} =>
       cpm = CpmOf(readCounts)

\* two records have been written, each with one of the two accepted pulses
C16_Witness ==
  /\ pc = "loop"
  /\ nRecords = 2
  /\ readCounts = 1
  /\ nReported = 2
  /\ nAccepted = 2

(***************************************************************************)
(* C17  The average while the window fills                                 *)
(***************************************************************************)
\* the logging cycles that have updated the window
Cycles == nRecords + (IF pc = "serial" THEN 1 ELSE 0)

\* the doses of the cycles so far in the slots 0, 1, ..., zero elsewhere
WarmUp ==
  [i \in 0..(NUM_SAMPLES - 1) |->
     IF i < Len(recent) THEN recent[i + 1] ELSE FZero]

\* C17: after k < 16 cycles the slots not yet written are zero and the
\* average reported is (d1 + ... + dk) / 16, the sum taken in float
\* arithmetic in the order of the cycles and the divisor 16, not k; after
\* k cycles, for every k, the write index is k mod 16 and it is always
\* within 0..15
C17_WarmUp ==
  /\ sampleIndex \in 0..(NUM_SAMPLES - 1)
  /\ sampleIndex = Cycles % NUM_SAMPLES
  /\ Len(recent) < NUM_SAMPLES =>
       /\ Len(recent) = Cycles
       /\ samples = WarmUp
       /\ total_uSv = SumTo(WarmUp, Len(recent))
       /\ Len(recent) > 0 =>
            average_uSv =
              FDiv(SumTo(WarmUp, Len(recent)), FromInt(NUM_SAMPLES))

\* three cycles have been averaged, the first two with different
\* non-zero doses
C17_Witness ==
  /\ pc = "oled"
  /\ Len(recent) = 3
  /\ recent[1] # FZero /\ recent[2] # FZero
  /\ recent[1] # recent[2]
  /\ sampleIndex = 3
  /\ average_uSv # FZero

(***************************************************************************)
(* SpecWrap: the interval check while the millisecond counter overflows.   *)
(* The clock is read after 13000 or 15000 ms or after a pause of           *)
(* 2^32 - 15001 ms, between two iterations of loop() and while the display *)
(* is refreshed; loop() is iterated at least once every 2^32 - 15001 ms:   *)
(* time passes only as far as the time since the last interval check       *)
(* (currentMillis is its reading) stays within that.  No pulses, no GPS.   *)
(***************************************************************************)
WrapRecords == 2

WrapSteps == {U32(13000), U32(15000), U32Minus(LOG_PERIOD + 1)}

\* the time since the interval check of the last iteration of loop()
IterationGap == Sub32(millis, currentMillis)

\* after d more ms the last interval check is at most 2^32 - 15001 ms ago
IteratedInTime(d) ==
  /\ Carry32(IterationGap, d) = 0
  /\ ~Lt32(U32Minus(LOG_PERIOD + 1), Add32(IterationGap, d))

NextWrap ==
  \/ setup_attach
  \/ setup_banner
  \/ loop_drained
  \/ loop_timer
  \/ loop_load
  \/ loop_geiger
  \/ loop_serial
  \/ loop_oled
  \/ loop_reset
  \/ \E d \in WrapSteps :
       /\ pc \in {"loop", "oled"}
       /\ MsRuns(WrapRecords, LOG_PERIOD)
       /\ IteratedInTime(d)
       /\ MillisAdvance(d)

SpecWrap == Init /\ [][NextWrap]_vars

(***************************************************************************)
(* C18  The interval check across the overflow of millis()                 *)
(***************************************************************************)
\* more than 15000 ms have really passed since the reading of the previous
\* logging cycle (msWraps > 0: 2^32 ms or more)
ReallyDue == msWraps > 0 \/ ElapsedMs.hi > 0 \/ ElapsedMs.lo > LOG_PERIOD

\* C18: while loop() is iterated at least once every 2^32 - 15001 ms, the
\* time since the previous cycle is below 2^32 ms at every interval check,
\* and the check starts a logging cycle if and only if more than 15000 ms
\* have really passed since the previous cycle, also when the counter has
\* overflowed in between: no cycle too early, none left out
C18_MillisWrap ==
  [][(pc = "timer" /\ pc' # pc) =>
       /\ msWraps = 0
       /\ ReallyDue => (pc' = "load" /\ previousMillis' = millis)
       /\ ~ReallyDue => (pc' = "loop" /\ previousMillis' = previousMillis)]_vars

\* the second cycle has run and its reading of the counter, 16999, is
\* below that of the first: the counter has overflowed in between
C18_Witness ==
  /\ pc = "loop"
  /\ nRecords = 2
  /\ previousMillis = U32(16999)
  /\ msWraps = 0

(***************************************************************************)
(* C19  The debounce across the overflow of micros()                       *)
(***************************************************************************)
\* impulse() has counted the edge and taken its time
EdgeAccepted == counts' = counts + 1 /\ lastInterruptTime' = micros

\* impulse() has left counts and the timestamp alone
EdgeDiscarded == counts' = counts /\ lastInterruptTime' = lastInterruptTime

\* C19: an edge less than 2^32 us after the last accepted edge (usWraps =
\* 0) is accepted if and only if it is more than 150 us after it, also
\* when the microsecond counter has overflowed between the two; an edge
\* more than 150 us after the last accepted edge is discarded only if it
\* is 2^32 us or more after it and the distance modulo 2^32 is in 0..150
C19_MicrosWrap ==
  [][nEdges' # nEdges =>
       /\ EdgeAccepted \/ EdgeDiscarded
       /\ usWraps = 0 =>
            (EdgeAccepted <=> (ElapsedUs.hi > 0 \/ ElapsedUs.lo > DEBOUNCE_US))
       /\ (EdgeDiscarded /\ usWraps = 0) =>
            (ElapsedUs.hi = 0 /\ ElapsedUs.lo <= DEBOUNCE_US)
       /\ (EdgeDiscarded /\ usWraps > 0) =>
            (ElapsedUs.hi = 0 /\ ElapsedUs.lo <= DEBOUNCE_US)]_vars

\* the second edge came 2^32 - 100 us after the first and was accepted:
\* its time on the counter, 51, is below that of the first, 151
C19_Witness ==
  /\ nEdges = 2
  /\ counts = 2
  /\ lastInterruptTime = U32(51)
  /\ micros = U32(51)

=============================================================================
